---- MODULE Spec2Model ----
(***************************************************************************)
(* Model of src/src/firebaseMessaging.ts: the FCM client returned by       *)
(* createFCMService, its token cache (_accessToken, _tokenExpiry) and the  *)
(* four operations getAccessToken, sendNotification,                       *)
(* sendMulticastNotification and sendTopicNotification.                    *)
(*                                                                         *)
(* JavaScript runs the code between two awaits without interruption, so    *)
(* one action is one such run: from the call (or from the arrival of a     *)
(* response) up to the next network request.  The two awaits on            *)
(* crypto.subtle (importKey, sign) are one suspension, pc = "sign".        *)
(***************************************************************************)
EXTENDS Integers, Sequences, FiniteSets, TLC

VARIABLES
    clock,          \* Math.floor(Date.now() / 1000)
    accessToken,    \* _accessToken of each client (line 66)
    tokenExpiry,    \* _tokenExpiry of each client (line 67)
    tasks,          \* the running invocations of getAccessToken / sendNotification / sendTopicNotification
    net,            \* the HTTP request each invocation has in flight
    mc,             \* the running invocation of sendMulticastNotification
    windowEnd,      \* history: the greatest now + expires_in of a successful exchange, per client
    pTokens,        \* partition run: the target list
    pI,             \* partition run: the loop variable i
    pBatches,       \* partition run: the batches sliced so far
    cred            \* construction run: the credential given, and what was made of it

vars == <<clock, accessToken, tokenExpiry, tasks, net, mc, windowEnd, pTokens, pI, pBatches, cred>>

mainVars == <<clock, accessToken, tokenExpiry, tasks, net, mc, windowEnd>>
partVars == <<pTokens, pI, pBatches>>

----------------------------------------------------------------------------
(* Bounds *)

MaxTasks == 2        \* invocations that can be in flight together
MaxTime == 101       \* the clock stops here
MaxTargets == 1200   \* longest target list of a partition run

(* Program constants *)

batchSize == 500     \* line 245
Buffer == 300        \* line 77: "5 minutes buffer"

----------------------------------------------------------------------------
(* Values *)

NULL == "null"

Clients == {"A", "B"}

\* both clients created with one service account
ProjectIdShared(c) == "proj-a"

\* project_id of the service account each client was created with
ProjectId(c) == IF c = "A" THEN "proj-a" ELSE "proj-b"

Slots == 1..MaxTasks

\* The instants at which the clock is observed: the multiples of 100, the
\* second before each, and the last instant.
TimePoints == {t \in 0..MaxTime : t % 100 \in {0, 99} \/ t = MaxTime}

\* access_token and expires_in of a successful token response
Tokens == {"abc", "xyz"}
ExpiresIn == {400, 500}

\* body text of a failed token response / error status of a failed send response
TokenErrorBodies == {"invalid_grant"}
SendErrorCodes == {"UNREGISTERED"}

\* Device tokens are numbers; 0 is the empty string.
EmptyToken == 0

\* Topic strings are sequences of chunks; <<>> is the empty string.
Prefix == "/topics/"
Topics ==
    { <<>>, <<"news">>, <<Prefix, "news">>,
      <<"news", Prefix, "x">>, <<Prefix, "news", Prefix, "x">>,
      <<Prefix>>, <<Prefix, Prefix, "x">> }

\* notification argument: present = FALSE is a missing argument, title "" an
\* empty or missing title, body "" a missing body.
NoNotification == [present |-> FALSE, title |-> "", body |-> ""]
Notifications ==
    { NoNotification,
      [present |-> TRUE, title |-> "", body |-> "there"],
      [present |-> TRUE, title |-> "Hi", body |-> ""] }

\* JavaScript truthiness of the modelled strings
Truthy(s) == s # "" /\ s # NULL

----------------------------------------------------------------------------
(* Errors: the message of the thrown Error, as the pieces of the template *)

DeviceTokenRequired == <<"Device token is required">>
TitleRequired == <<"Notification title is required">>
TopicRequired == <<"Topic name is required">>
TokensRequired == <<"At least one device token is required">>
NoError == <<>>

\* line 150 without the interpolated body
TokenExchangeErrorNoBody(errorText) == <<"Failed to obtain access token: ">>

\* line 150: `Failed to obtain access token: ${errorText}`
TokenExchangeError(errorText) == <<"Failed to obtain access token: ", errorText>>

\* lines 215, 311 without the interpolated body
FcmApiErrorNoBody(errorText) == <<"FCM API error: ">>

\* lines 215, 311: `FCM API error: ${errorText}`
FcmApiError(errorText) == <<"FCM API error: ", errorText>>

\* The error kinds of the specification, by message
ErrorKind(e) ==
    IF Len(e) = 0 THEN "none"
    ELSE IF e[1] \in {"Device token is required", "Notification title is required",
                      "Topic name is required", "At least one device token is required"}
         THEN "InvalidArgument"
    ELSE IF e[1] = "Failed to obtain access token: " THEN "TokenExchangeFailed"
    ELSE IF e[1] = "FCM API error: " THEN "DispatchFailed"
    ELSE IF e[1] \in {"Invalid Firebase service account. Must include private_key, client_email and project_id",
                      "Invalid service account JSON: "}
         THEN "MalformedCredential"
    ELSE "other"

\* the response body text a remote-API error message embeds
ErrorBody(e) == IF Len(e) >= 2 THEN e[2] ELSE NULL

----------------------------------------------------------------------------
(* Promise outcomes *)

\* value of a fulfilled getAccessToken: token; of a fulfilled send: name, the
\* `name` of the FCMResponse.  The send endpoint names the message after the
\* project and the target it was sent to.
NoName == [project |-> "", token |-> EmptyToken, topic |-> <<>>]
Pending == [status |-> "pending", token |-> NULL, name |-> NoName, reason |-> NoError]
FulfilledToken(t) == [status |-> "fulfilled", token |-> t, name |-> NoName, reason |-> NoError]
FulfilledResponse(n) == [status |-> "fulfilled", token |-> NULL, name |-> n, reason |-> NoError]
Rejected(e) == [status |-> "rejected", token |-> NULL, name |-> NoName, reason |-> e]

----------------------------------------------------------------------------
(* Invocations and requests *)

FreeTask ==
    [ kind |-> "none", pc |-> "free", client |-> "A",
      of |-> -1, idx |-> 0,               \* multicast child: loop variable i and index in `promises`
      token |-> EmptyToken, topic |-> <<>>, notification |-> NoNotification,
      now |-> -1,                          \* `now` of getAccessToken (line 76), -1 before it is read
      accessToken |-> NULL,                \* what getAccessToken returned to this invocation
      tReq |-> 0, sReq |-> 0,              \* history: requests issued to the token / send endpoint
      result |-> Pending ]

\* A request and, once the endpoint has answered, its response: ok is
\* response.ok, text the body of a failed response, access_token and expires_in
\* the body of a successful token response.
NoRequest ==
    [ ep |-> "none", client |-> "A", project |-> "", iat |-> -1, exp |-> -1, bearer |-> NULL,
      addr |-> "none", token |-> EmptyToken, topic |-> <<>>, title |-> "", body |-> "",
      answered |-> FALSE, ok |-> FALSE, text |-> NULL, access_token |-> NULL, expires_in |-> 0 ]

\* lines 82-146: the signed assertion posted to the token endpoint
TokenRequest(c, now) ==
    [NoRequest EXCEPT !.ep = "token", !.client = c, !.iat = now, !.exp = now + 3600]

\* line 285 and line 298: the topic field of the request body
StartsWithPrefix(topic) == Len(topic) > 0 /\ topic[1] = Prefix

RECURSIVE ReplaceFirst(_)
ReplaceFirst(topic) ==
    IF Len(topic) = 0 THEN topic
    ELSE IF topic[1] = Prefix THEN Tail(topic)
    ELSE <<topic[1]>> \o ReplaceFirst(Tail(topic))

\* line 285 without the startsWith test
FormattedTopicAlways(topic) == <<Prefix>> \o topic

FormattedTopic(topic) == IF StartsWithPrefix(topic) THEN topic ELSE <<Prefix>> \o topic

TopicField(topic) == ReplaceFirst(FormattedTopic(topic))

\* lines 192-211 with _accessToken read in place of the local accessToken
SendRequestCacheBearer(t, bearer) ==
    [NoRequest EXCEPT
        !.ep = "send", !.client = t.client, !.project = ProjectId(t.client),
        !.bearer = accessToken[t.client],
        !.addr = IF t.kind = "sendTopicNotification" THEN "topic" ELSE "token",
        !.token = IF t.kind = "sendTopicNotification" THEN EmptyToken ELSE t.token,
        !.topic = IF t.kind = "sendTopicNotification" THEN TopicField(t.topic) ELSE <<>>,
        !.title = t.notification.title,
        !.body = t.notification.body]

\* lines 192-211 and 288-307: the request posted to the send endpoint
SendRequest(t, bearer) ==
    [NoRequest EXCEPT
        !.ep = "send", !.client = t.client, !.project = ProjectId(t.client), !.bearer = bearer,
        !.addr = IF t.kind = "sendTopicNotification" THEN "topic" ELSE "token",
        !.token = IF t.kind = "sendTopicNotification" THEN EmptyToken ELSE t.token,
        !.topic = IF t.kind = "sendTopicNotification" THEN TopicField(t.topic) ELSE <<>>,
        !.title = t.notification.title,
        !.body = t.notification.body]

----------------------------------------------------------------------------
(* Validation *)

\* lines 180-186 without the check of the title
SendNotificationCheckNoTitle(token, notification) ==
    IF token = EmptyToken THEN DeviceTokenRequired ELSE NoError

\* lines 180-186
SendNotificationCheck(token, notification) ==
    IF token = EmptyToken THEN DeviceTokenRequired
    ELSE IF ~notification.present \/ ~Truthy(notification.title) THEN TitleRequired
    ELSE NoError

\* lines 273-279
SendTopicNotificationCheck(topic, notification) ==
    IF Len(topic) = 0 THEN TopicRequired
    ELSE IF ~notification.present \/ ~Truthy(notification.title) THEN TitleRequired
    ELSE NoError

ArgumentCheck(kind, token, topic, notification) ==
    IF kind = "sendNotification" THEN SendNotificationCheck(token, notification)
    ELSE IF kind = "sendTopicNotification" THEN SendTopicNotificationCheck(topic, notification)
    ELSE NoError

----------------------------------------------------------------------------
(* getAccessToken, lines 73-165 *)

\* the comparison of line 77 turned round
CacheValidInverted(c, now) == Truthy(accessToken[c]) /\ tokenExpiry[c] < now + Buffer

\* line 77 without the buffer
CacheValidNoBuffer(c, now) == Truthy(accessToken[c]) /\ tokenExpiry[c] > now

\* line 77
CacheValid(c, now) == Truthy(accessToken[c]) /\ tokenExpiry[c] > now + Buffer

\* What an invocation has become when its call returns its promise: rejected by
\* the validation, or in getAccessToken with `now` read and either the cached
\* token in hand (and, for a send, the send request posted) or the assertion
\* being signed.
Called(kind, c, of, idx, token, topic, notification) ==
    LET t0 == [FreeTask EXCEPT !.kind = kind, !.client = c, !.of = of, !.idx = idx,
                               !.token = token, !.topic = topic,
                               !.notification = notification]
        err == ArgumentCheck(kind, token, topic, notification)
        t1 == [t0 EXCEPT !.now = clock]
    IN  IF Len(err) > 0
        THEN [task |-> [t0 EXCEPT !.pc = "done", !.result = Rejected(err)], req |-> NoRequest]
        ELSE IF ~CacheValid(c, clock)
        THEN [task |-> [t1 EXCEPT !.pc = "sign"], req |-> NoRequest]
        ELSE IF kind = "getAccessToken"
        THEN [task |-> [t1 EXCEPT !.pc = "done", !.accessToken = accessToken[c],
                                  !.result = FulfilledToken(accessToken[c])],
              req |-> NoRequest]
        ELSE [task |-> [t1 EXCEPT !.pc = "send_wait", !.accessToken = accessToken[c],
                                  !.sReq = 1],
              req |-> SendRequest(t1, accessToken[c])]

----------------------------------------------------------------------------
(* Credentials: createServiceAccountFromJson (lines 335-349) and the check of *)
(* createFCMService (lines 56-60)                                             *)

\* A field of a service account is absent (Undefined), null, "" or a
\* non-empty string.
Undefined == "undefined"
CredFields == <<"project_id", "private_key", "client_email", "universe_domain">>
FieldNames == {CredFields[k] : k \in 1..Len(CredFields)}
FieldValues(name) ==
    IF name = "universe_domain" THEN {Undefined, NULL, "", "googleapis.com"}
    ELSE {Undefined, NULL, "", name}
NoFields == [name \in FieldNames |-> Undefined]
Objects == {f \in [FieldNames -> {Undefined, NULL, "", "googleapis.com"} \cup FieldNames] :
               \A name \in FieldNames : f[name] \in FieldValues(name)}

\* `!v` of a field
Not(v) == v = Undefined \/ ~Truthy(v)

\* JSON text is a sequence of tokens; a member "k": v is one token
Tok(t, k, v) == [t |-> t, k |-> k, v |-> v]
LBrace == Tok("lbrace", "", "")
RBrace == Tok("rbrace", "", "")
Comma == Tok("comma", "", "")

\* a JavaScript value: an object with the fields f, null, undefined, or
\* something else (a number, a string, an array), which has none of the fields
Value(kind, f) == [kind |-> kind, f |-> f]
SyntaxError == Value("error", NoFields)

\* the member is dropped when its value is null
SetMemberNonNull(f, tok) == IF tok.v = NULL THEN f ELSE [f EXCEPT ![tok.k] = tok.v]

\* JSON.parse: a member sets its field
SetMember(f, tok) == [f EXCEPT ![tok.k] = tok.v]

\* JSON.parse: the members between the braces, separated by commas
RECURSIVE ParseMembers(_, _)
ParseMembers(m, f) ==
    IF m[1].t # "pair" THEN SyntaxError
    ELSE IF Len(m) = 1 THEN Value("object", SetMember(f, m[1]))
    ELSE IF Len(m) >= 3 /\ m[2].t = "comma"
         THEN ParseMembers(SubSeq(m, 3, Len(m)), SetMember(f, m[1]))
    ELSE SyntaxError

\* line 338: JSON.parse
Parse(text) ==
    IF Len(text) = 0 THEN SyntaxError
    ELSE IF Len(text) = 1
         THEN IF text[1].t = "null" THEN Value("null", NoFields)
              ELSE IF text[1].t \in {"number", "string"} THEN Value("other", NoFields)
              ELSE SyntaxError
    ELSE IF text[1].t = "lbracket"
         THEN IF Len(text) = 2 /\ text[2].t = "rbracket" THEN Value("other", NoFields)
              ELSE SyntaxError
    ELSE IF text[1].t = "lbrace" /\ text[Len(text)].t = "rbrace"
         THEN IF Len(text) = 2 THEN Value("object", NoFields)
              ELSE ParseMembers(SubSeq(text, 2, Len(text) - 1), NoFields)
    ELSE SyntaxError

\* lines 58-60 without the check of project_id
ServiceAccountCheckNoProject(serviceAccount) ==
    /\ serviceAccount.kind \notin {"null", "undefined"}
    /\ ~Not(serviceAccount.f["private_key"])
    /\ ~Not(serviceAccount.f["client_email"])

\* line 58: the service account passes the check
ServiceAccountCheck(serviceAccount) ==
    /\ serviceAccount.kind \notin {"null", "undefined"}
    /\ ~Not(serviceAccount.f["private_key"])
    /\ ~Not(serviceAccount.f["client_email"])
    /\ ~Not(serviceAccount.f["project_id"])

InvalidServiceAccount ==
    <<"Invalid Firebase service account. Must include private_key, client_email and project_id">>

\* line 347: `Invalid service account JSON: ${error.message}`
InvalidJson(message) == <<"Invalid service account JSON: ", message>>

\* what a call gives: the value returned, or the error thrown
Returned(value) == [ok |-> TRUE, value |-> value, error |-> NoError]
Thrown(error) == [ok |-> FALSE, value |-> Value("undefined", NoFields), error |-> error]

\* lines 335-349.  Reading a field of null throws a TypeError, which the
\* catch wraps like the two other errors.
createServiceAccountFromJson(serviceAccountJson) ==
    LET serviceAccount == Parse(serviceAccountJson)
    IN  IF serviceAccount.kind = "error" THEN Thrown(InvalidJson("SyntaxError"))
        ELSE IF serviceAccount.kind = "null" THEN Thrown(InvalidJson("TypeError"))
        ELSE IF \/ Not(serviceAccount.f["private_key"])
                \/ Not(serviceAccount.f["client_email"])
                \/ Not(serviceAccount.f["project_id"])
        THEN Thrown(InvalidJson("Invalid service account JSON. Must include private_key, client_email, and project_id"))
        ELSE Returned(serviceAccount)

\* lines 56-63: the client is created, holding the service account
createFCMService(serviceAccount) ==
    IF ~ServiceAccountCheck(serviceAccount) THEN Thrown(InvalidServiceAccount)
    ELSE Returned(serviceAccount)

----------------------------------------------------------------------------
(* Slots *)

Min(a, b) == IF a < b THEN a ELSE b
Max(a, b) == IF a > b THEN a ELSE b

RECURSIVE Sorted(_)
Sorted(S) ==
    IF S = {} THEN <<>>
    ELSE LET m == CHOOSE x \in S : \A y \in S : x <= y
         IN  <<m>> \o Sorted(S \ {m})

FreeSlots == {s \in Slots : tasks[s].pc = "free"}
InFlight(s) == tasks[s].pc \in {"sign", "token_wait", "send_wait"}

----------------------------------------------------------------------------
(* Initial state: createFCMService has returned each client, lines 62-67 *)

\* tokens argument.  defined = FALSE is a missing argument; otherwise the
\* array has n entries: those at the positions in live are device tokens (each
\* its own), the others are empty strings.
NoTargets == [defined |-> FALSE, n |-> 0, live |-> {}]

\* tokens is held as the description of the array Items(tokens)
McIdle ==
    [ pc |-> "idle", client |-> "A", tokens |-> NoTargets, notification |-> NoNotification,
      i |-> 0, results |-> <<>>, outcome |-> "pending", reason |-> NoError ]

MainInit ==
    /\ clock = 0
    /\ accessToken = [c \in Clients |-> NULL]
    /\ tokenExpiry = [c \in Clients |-> 0]
    /\ tasks = [s \in Slots |-> FreeTask]
    /\ net = [s \in Slots |-> NoRequest]
    /\ mc = McIdle
    /\ windowEnd = [c \in Clients |-> 0]

PartIdle ==
    /\ pTokens = <<>>
    /\ pI = 0
    /\ pBatches = <<>>

\* no construction run: the clients exist
CredIdle ==
    cred = [ pc |-> "idle", how |-> "none",
             input |-> [shape |-> "none", defect |-> "none", obj |-> NoFields],
             text |-> <<>>, account |-> Value("undefined", NoFields), error |-> NoError,
             iss |-> Undefined, key |-> Undefined ]

Init == MainInit /\ PartIdle /\ CredIdle

----------------------------------------------------------------------------
(* Calls of the single-target operations *)

\* One logical flow per client: the caller awaits each call before the next.
Quiet(c) ==
    /\ mc.pc = "idle" \/ mc.client # c
    /\ \A s \in Slots : tasks[s].pc = "free" \/ tasks[s].client # c

Call(kind, c, token, topic, notification) ==
    /\ Quiet(c)
    /\ FreeSlots # {}
    /\ LET s == Sorted(FreeSlots)[1]
           r == Called(kind, c, -1, 0, token, topic, notification)
       IN  /\ tasks' = [tasks EXCEPT ![s] = r.task]
           /\ net' = [net EXCEPT ![s] = r.req]
    /\ UNCHANGED <<clock, accessToken, tokenExpiry, mc, windowEnd, partVars, cred>>

CallGetAccessToken(c) ==
    Call("getAccessToken", c, EmptyToken, <<>>, NoNotification)

CallSendNotification(c) ==
    \E token \in {EmptyToken, 1}, n \in Notifications :
        Call("sendNotification", c, token, <<>>, n)

CallSendTopicNotification(c) ==
    \E topic \in Topics, n \in Notifications :
        Call("sendTopicNotification", c, EmptyToken, topic, n)

----------------------------------------------------------------------------
(* getAccessToken after the call *)

\* lines 117-146: the assertion is signed, the token request is posted
PostTokenRequest(s) ==
    /\ tasks[s].pc = "sign"
    /\ tasks' = [tasks EXCEPT ![s].pc = "token_wait", ![s].tReq = @ + 1]
    /\ net' = [net EXCEPT ![s] = TokenRequest(tasks[s].client, tasks[s].now)]
    /\ UNCHANGED <<clock, accessToken, tokenExpiry, mc, windowEnd, partVars, cred>>

\* line 157 without `now`: the lifetime taken for the expiry time
NewExpiryNoNow(now, expires_in) == expires_in

\* line 157 with the time read when the response arrives
NewExpiryAtArrival(now, expires_in) == clock + expires_in

\* line 157
NewExpiry(now, expires_in) == now + expires_in

\* lines 156-157 with the expiry kept when the one cached is later
TokenResponseOkKeepsLaterExpiry(s) ==
    /\ tasks[s].pc = "token_wait"
    /\ \E access_token \in Tokens, expires_in \in ExpiresIn :
        LET t == tasks[s]
            c == t.client
        IN  /\ accessToken' = [accessToken EXCEPT ![c] = access_token]
            /\ tokenExpiry' = [tokenExpiry EXCEPT ![c] = Max(@, NewExpiry(t.now, expires_in))]
            /\ windowEnd' = [windowEnd EXCEPT ![c] = Max(@, t.now + expires_in)]
            /\ IF t.kind = "getAccessToken"
               THEN /\ tasks' = [tasks EXCEPT ![s].pc = "done",
                                              ![s].accessToken = access_token,
                                              ![s].result = FulfilledToken(access_token)]
                    /\ net' = [net EXCEPT ![s].answered = TRUE, ![s].ok = TRUE,
                                          ![s].access_token = access_token,
                                          ![s].expires_in = expires_in]
               ELSE /\ tasks' = [tasks EXCEPT ![s].pc = "send_wait",
                                              ![s].accessToken = access_token,
                                              ![s].sReq = @ + 1]
                    /\ net' = [net EXCEPT ![s] = SendRequest(t, access_token)]
    /\ UNCHANGED <<clock, mc, partVars, cred>>

\* lines 153-160, then for a send lines 192-211 / 284-307: the token endpoint
\* answers ok with {access_token, expires_in}
TokenResponseOk(s) ==
    /\ tasks[s].pc = "token_wait"
    /\ \E access_token \in Tokens, expires_in \in ExpiresIn :
        LET t == tasks[s]
            c == t.client
        IN  /\ accessToken' = [accessToken EXCEPT ![c] = access_token]
            /\ tokenExpiry' = [tokenExpiry EXCEPT ![c] = NewExpiry(t.now, expires_in)]
            /\ windowEnd' = [windowEnd EXCEPT ![c] = Max(@, t.now + expires_in)]
            /\ IF t.kind = "getAccessToken"
               THEN /\ tasks' = [tasks EXCEPT ![s].pc = "done",
                                              ![s].accessToken = access_token,
                                              ![s].result = FulfilledToken(access_token)]
                    /\ net' = [net EXCEPT ![s].answered = TRUE, ![s].ok = TRUE,
                                          ![s].access_token = access_token,
                                          ![s].expires_in = expires_in]
               ELSE /\ tasks' = [tasks EXCEPT ![s].pc = "send_wait",
                                              ![s].accessToken = access_token,
                                              ![s].sReq = @ + 1]
                    /\ net' = [net EXCEPT ![s] = SendRequest(t, access_token)]
    /\ UNCHANGED <<clock, mc, partVars, cred>>

\* lines 148-151 with the cache emptied when the exchange fails
TokenResponseFailClears(s) ==
    /\ tasks[s].pc = "token_wait"
    /\ \E errorText \in TokenErrorBodies :
        /\ tasks' = [tasks EXCEPT ![s].pc = "done",
                                  ![s].result = Rejected(TokenExchangeError(errorText))]
        /\ net' = [net EXCEPT ![s].answered = TRUE, ![s].text = errorText]
    /\ accessToken' = [accessToken EXCEPT ![tasks[s].client] = NULL]
    /\ tokenExpiry' = [tokenExpiry EXCEPT ![tasks[s].client] = 0]
    /\ UNCHANGED <<clock, mc, windowEnd, partVars, cred>>

\* lines 148-151 with one more attempt after a first non-success status
TokenResponseFailRetry(s) ==
    /\ tasks[s].pc = "token_wait"
    /\ \E errorText \in TokenErrorBodies :
        /\ tasks' = IF tasks[s].tReq < 2
                    THEN [tasks EXCEPT ![s].pc = "sign"]
                    ELSE [tasks EXCEPT ![s].pc = "done",
                                       ![s].result = Rejected(TokenExchangeError(errorText))]
        /\ net' = [net EXCEPT ![s].answered = TRUE, ![s].text = errorText]
    /\ UNCHANGED <<clock, accessToken, tokenExpiry, mc, windowEnd, partVars, cred>>

\* lines 148-151 and 161-164, then the catch of the send (219-222 / 315-318):
\* the token endpoint answers with a non-success status
TokenResponseFail(s) ==
    /\ tasks[s].pc = "token_wait"
    /\ \E errorText \in TokenErrorBodies :
        /\ tasks' = [tasks EXCEPT ![s].pc = "done",
                                  ![s].result = Rejected(TokenExchangeError(errorText))]
        /\ net' = [net EXCEPT ![s].answered = TRUE, ![s].text = errorText]
    /\ UNCHANGED <<clock, accessToken, tokenExpiry, mc, windowEnd, partVars, cred>>

----------------------------------------------------------------------------
(* The send endpoint answers *)

\* lines 218 / 314
SendResponseOk(s) ==
    /\ tasks[s].pc = "send_wait"
    /\ LET name == [project |-> net[s].project, token |-> net[s].token, topic |-> net[s].topic]
       IN  tasks' = [tasks EXCEPT ![s].pc = "done", ![s].result = FulfilledResponse(name)]
    /\ net' = [net EXCEPT ![s].answered = TRUE, ![s].ok = TRUE]
    /\ UNCHANGED <<clock, accessToken, tokenExpiry, mc, windowEnd, partVars, cred>>

\* lines 213-216 / 309-312
SendResponseFail(s) ==
    /\ tasks[s].pc = "send_wait"
    /\ \E code \in SendErrorCodes :
        LET errorText == [code |-> code, token |-> net[s].token, topic |-> net[s].topic]
        IN  /\ tasks' = [tasks EXCEPT ![s].pc = "done",
                                      ![s].result = Rejected(FcmApiError(errorText))]
            /\ net' = [net EXCEPT ![s].answered = TRUE, ![s].text = errorText]
    /\ UNCHANGED <<clock, accessToken, tokenExpiry, mc, windowEnd, partVars, cred>>

\* getAccessToken is called without waiting for the calls before it: the
\* service interface (lines 322-327) lets a caller hold several promises.
CallOverlapping(c) ==
    /\ mc.pc = "idle"
    /\ FreeSlots # {}
    /\ LET s == Sorted(FreeSlots)[1]
           r == Called("getAccessToken", c, -1, 0, EmptyToken, <<>>, NoNotification)
       IN  /\ tasks' = [tasks EXCEPT ![s] = r.task]
           /\ net' = [net EXCEPT ![s] = r.req]
    /\ UNCHANGED <<clock, accessToken, tokenExpiry, mc, windowEnd, partVars, cred>>

\* The caller has received the outcome of a call it made itself.
Return(s) ==
    /\ tasks[s].pc = "done"
    /\ tasks[s].idx = 0
    /\ tasks' = [tasks EXCEPT ![s] = FreeTask]
    /\ net' = [net EXCEPT ![s] = NoRequest]
    /\ UNCHANGED <<clock, accessToken, tokenExpiry, mc, windowEnd, partVars, cred>>

\* Time passes.
Tick ==
    /\ \E t \in TimePoints : t > clock /\ clock' = t
    /\ UNCHANGED <<accessToken, tokenExpiry, tasks, net, mc, windowEnd, partVars, cred>>

----------------------------------------------------------------------------
(* sendMulticastNotification, lines 232-258 *)

McInputs ==
    { NoTargets,
      [defined |-> TRUE, n |-> 0, live |-> {}],
      [defined |-> TRUE, n |-> MaxTasks, live |-> 1..MaxTasks],
      [defined |-> TRUE, n |-> 2, live |-> {2}],
      [defined |-> TRUE, n |-> batchSize + 1, live |-> {1, batchSize, batchSize + 1}],
      [defined |-> TRUE, n |-> 2 * batchSize + 1, live |-> {batchSize + 1, 2 * batchSize + 1}] }

\* the array itself
Items(input) == [k \in 1..input.n |-> IF k \in input.live THEN k ELSE EmptyToken]

\* lines 237-239 without the check of the length
MulticastCheckNoLength(input) == IF ~input.defined THEN TokensRequired ELSE NoError

\* lines 237-239
MulticastCheck(input) ==
    IF ~input.defined \/ Len(Items(input)) = 0 THEN TokensRequired ELSE NoError

\* slice with its end taken as inclusive
sliceInclusive(arr, start, end) == SubSeq(arr, start + 1, Min(end + 1, Len(arr)))

\* Array.prototype.slice(start, end) on a sequence indexed from 1
slice(arr, start, end) == SubSeq(arr, start + 1, Min(end, Len(arr)))

\* line 246: the loop condition
LoopContinues(i, tokens) == i < Len(tokens)

\* line 246: the loop increment
NextI(i) == i + batchSize

\* line 254 with unshift for push
UnshiftAll(results, batchResults) == batchResults \o results

\* line 254: results.push(...batchResults)
PushAll(results, batchResults) == results \o batchResults

\* lines 247-250: every sendNotification of the batch is called, in order, before
\* anything else runs; a call the validation rejects is a rejected promise at
\* once, the others (live, in order) are invocations in flight, here placed in
\* the free slots (free, in order) of base.
Spawn(c, batch, notification, i, base, live, free) ==
    LET child(s) ==
            LET j == live[CHOOSE k \in 1..Len(live) : free[k] = s]
            IN  Called("sendNotification", c, i, j, batch[j], <<>>, notification)
        taken == {free[k] : k \in 1..Min(Len(live), Len(free))}
    IN  [ fits |-> Len(live) <= Len(free),
          tasks |-> [s \in Slots |-> IF s \in taken THEN child(s).task ELSE base[s]],
          net |-> [s \in Slots |->
                     IF s \in taken THEN child(s).req
                     ELSE IF base[s].pc = "free" THEN NoRequest
                     ELSE net[s]] ]

BatchTasks(c, batch, notification, i, base) ==
    Spawn(c, batch, notification, i, base,
          Sorted({j \in 1..Len(batch) :
                    Len(SendNotificationCheck(batch[j], notification)) = 0}),
          Sorted({s \in Slots : base[s].pc = "free"}))

McCall(c) ==
    /\ Quiet(c)
    /\ mc.pc = "idle"
    /\ \E input \in McInputs, n \in Notifications :
        LET err == MulticastCheck(input)
            b == BatchTasks(c, slice(Items(input), 0, batchSize), n, 0, tasks)
        IN  IF Len(err) > 0
            THEN /\ mc' = [McIdle EXCEPT !.pc = "done", !.client = c, !.tokens = input,
                                         !.notification = n,
                                         !.outcome = "rejected", !.reason = err]
                 /\ UNCHANGED <<tasks, net>>
            ELSE /\ b.fits
                 /\ mc' = [McIdle EXCEPT !.pc = "await", !.client = c,
                                         !.tokens = input, !.notification = n]
                 /\ tasks' = b.tasks
                 /\ net' = b.net
    /\ UNCHANGED <<clock, accessToken, tokenExpiry, windowEnd, partVars, cred>>

\* the invocations of the batch sliced at i
Children(i) == {s \in Slots : tasks[s].idx > 0 /\ tasks[s].of = i}

\* line 253 with Promise.all: resolved by the first rejection as well
FailFast(i) ==
    \/ \A s \in Children(i) : tasks[s].pc = "done"
    \/ \E s \in Children(i) : tasks[s].result.status = "rejected"

\* line 253 without its await
NotAwaited(i) == TRUE

\* line 253 resolving only when every promise of the batch is fulfilled
AllFulfilled(i) ==
    \A s \in Children(i) : tasks[s].pc = "done" /\ tasks[s].result.status = "fulfilled"

\* line 253: Promise.allSettled resolves when every promise of the batch has settled
AllSettled(i) == \A s \in Children(i) : tasks[s].pc = "done"

\* line 253: the settlement record of promises[j]
Settlement(i, j, token, notification) ==
    LET err == SendNotificationCheck(token, notification)
    IN  IF Len(err) > 0 THEN Rejected(err)
        ELSE tasks[CHOOSE s \in Children(i) : tasks[s].idx = j].result

\* line 253: the settlement records of the batch, in the order of promises
BatchResults(i, batch, notification) ==
    [j \in 1..Len(batch) |-> Settlement(i, j, batch[j], notification)]

\* lines 253-257: the batch has settled; its records are pushed, and the loop
\* either slices and calls the next batch or ends and results is returned
McSettle ==
    /\ mc.pc = "await"
    /\ AllSettled(mc.i)
    /\ LET results == PushAll(mc.results,
                              BatchResults(mc.i, slice(Items(mc.tokens), mc.i, mc.i + batchSize),
                                           mc.notification))
           i == NextI(mc.i)
           settled == [s \in Slots |->
                          IF tasks[s].idx > 0 /\ tasks[s].pc = "done" THEN FreeTask
                          ELSE tasks[s]]
           b == BatchTasks(mc.client, slice(Items(mc.tokens), i, i + batchSize),
                           mc.notification, i, settled)
       IN  IF LoopContinues(i, Items(mc.tokens))
           THEN /\ b.fits
                /\ mc' = [mc EXCEPT !.i = i, !.results = results]
                /\ tasks' = b.tasks
                /\ net' = b.net
           ELSE /\ mc' = [mc EXCEPT !.pc = "done", !.i = i, !.results = results,
                                    !.outcome = "fulfilled"]
                /\ tasks' = settled
                /\ net' = [s \in Slots |-> IF settled[s].pc = "free" THEN NoRequest ELSE net[s]]
    /\ UNCHANGED <<clock, accessToken, tokenExpiry, windowEnd, partVars, cred>>

\* The caller has received the outcome of sendMulticastNotification.
McReturn ==
    /\ mc.pc = "done"
    /\ mc' = McIdle
    /\ UNCHANGED <<clock, accessToken, tokenExpiry, tasks, net, windowEnd, partVars, cred>>

----------------------------------------------------------------------------
(* The batch loop alone, lines 246-255, on target lists of every length *)

PartInit ==
    /\ MainInit
    /\ pTokens \in {[k \in 1..n |-> k] : n \in 0..MaxTargets}
    /\ CredIdle
    /\ pI = 0
    /\ pBatches = <<>>

PartStep ==
    /\ LoopContinues(pI, pTokens)
    /\ pBatches' = Append(pBatches, slice(pTokens, pI, pI + batchSize))
    /\ pI' = NextI(pI)
    /\ UNCHANGED <<pTokens, mainVars, cred>>

----------------------------------------------------------------------------
(* Construction: a credential is given as JSON text or as an object, the *)
(* client is created from it and used                                    *)

\* The credentials given: as JSON text, an object with or without a defect of
\* syntax, or null, a number, a string, an array, or nothing at all; as an
\* object, an object, null or undefined.
JsonInputs ==
    [shape : {"object"}, defect : {"none", "unclosed", "trailing_comma"}, obj : Objects]
    \cup [shape : {"null", "number", "string", "array", "empty"}, defect : {"none"},
          obj : {NoFields}]
ObjectInputs ==
    [shape : {"object"}, defect : {"none"}, obj : Objects]
    \cup [shape : {"null", "undefined"}, defect : {"none"}, obj : {NoFields}]

\* the members of obj, in the order of CredFields, separated by commas
RECURSIVE Members(_, _)
Members(obj, k) ==
    IF k > Len(CredFields) THEN <<>>
    ELSE LET rest == Members(obj, k + 1)
             name == CredFields[k]
         IN  IF obj[name] = Undefined THEN rest
             ELSE IF Len(rest) = 0 THEN <<Tok("pair", name, obj[name])>>
             ELSE <<Tok("pair", name, obj[name]), Comma>> \o rest

\* the JSON text of an input
Text(input) ==
    IF input.shape = "empty" THEN <<>>
    ELSE IF input.shape = "array" THEN <<Tok("lbracket", "", ""), Tok("rbracket", "", "")>>
    ELSE IF input.shape # "object" THEN <<Tok(input.shape, "", "")>>
    ELSE IF input.defect = "unclosed" THEN <<LBrace>> \o Members(input.obj, 1)
    ELSE IF input.defect = "trailing_comma"
         THEN <<LBrace>> \o Members(input.obj, 1) \o <<Comma, RBrace>>
    ELSE <<LBrace>> \o Members(input.obj, 1) \o <<RBrace>>

CredInit ==
    /\ MainInit
    /\ PartIdle
    /\ \E how \in {"json", "object"} :
         \E input \in IF how = "json" THEN JsonInputs ELSE ObjectInputs :
            cred = [ pc |-> "start", how |-> how, input |-> input,
                     text |-> IF how = "json" THEN Text(input) ELSE <<>>,
                     account |-> IF how = "json" THEN Value("undefined", NoFields)
                                 ELSE Value(input.shape, input.obj),
                     error |-> NoError, iss |-> Undefined, key |-> Undefined ]

\* createServiceAccountFromJson is called on the text
CredFromJson ==
    /\ cred.pc = "start"
    /\ cred.how = "json"
    /\ LET r == createServiceAccountFromJson(cred.text)
       IN  cred' = IF r.ok THEN [cred EXCEPT !.pc = "parsed", !.account = r.value]
                   ELSE [cred EXCEPT !.pc = "failed", !.error = r.error]
    /\ UNCHANGED <<mainVars, partVars>>

\* createFCMService is called on the service account
CredCreate ==
    /\ cred.pc = "parsed" \/ (cred.pc = "start" /\ cred.how = "object")
    /\ LET r == createFCMService(cred.account)
       IN  cred' = IF r.ok THEN [cred EXCEPT !.pc = "created"]
                   ELSE [cred EXCEPT !.pc = "failed", !.error = r.error]
    /\ UNCHANGED <<mainVars, partVars>>

\* lines 88 and 108: an operation of the client signs an assertion issued by
\* client_email with private_key
CredUse ==
    /\ cred.pc = "created"
    /\ cred' = [cred EXCEPT !.pc = "used",
                            !.iss = cred.account.f["client_email"],
                            !.key = cred.account.f["private_key"]]
    /\ UNCHANGED <<mainVars, partVars>>

----------------------------------------------------------------------------
(* Specifications *)

\* the client the calls are made on
Callers == {"A"}

Next ==
    \/ \E c \in Callers : CallGetAccessToken(c)
    \/ \E c \in Callers : CallSendNotification(c)
    \/ \E c \in Callers : CallSendTopicNotification(c)
    \/ \E s \in Slots : PostTokenRequest(s)
    \/ \E s \in Slots : TokenResponseOk(s)
    \/ \E s \in Slots : TokenResponseFail(s)
    \/ \E s \in Slots : SendResponseOk(s)
    \/ \E s \in Slots : SendResponseFail(s)
    \/ \E s \in Slots : Return(s)
    \/ \E c \in Callers : McCall(c)
    \/ McSettle
    \/ McReturn
    \/ Tick

Spec == Init /\ [][Next]_vars

\* A caller that makes single-target calls only, each after the one before
\* has completed
SeqNext ==
    \/ \E c \in Callers : CallGetAccessToken(c)
    \/ \E c \in Callers : CallSendNotification(c)
    \/ \E c \in Callers : CallSendTopicNotification(c)
    \/ \E s \in Slots : PostTokenRequest(s)
    \/ \E s \in Slots : TokenResponseOk(s)
    \/ \E s \in Slots : TokenResponseFail(s)
    \/ \E s \in Slots : SendResponseOk(s)
    \/ \E s \in Slots : SendResponseFail(s)
    \/ \E s \in Slots : Return(s)
    \/ Tick

SeqSpec == Init /\ [][SeqNext]_vars

\* The batch loop on its own
PartSpec == PartInit /\ [][PartStep]_vars

\* Two clients, each with a caller that gets tokens and sends to a device,
\* each call after the one before has completed
TwoNext ==
    \/ \E c \in Clients : CallGetAccessToken(c)
    \/ \E c \in Clients : CallSendNotification(c)
    \/ \E s \in Slots : PostTokenRequest(s)
    \/ \E s \in Slots : TokenResponseOk(s)
    \/ \E s \in Slots : TokenResponseFail(s)
    \/ \E s \in Slots : SendResponseOk(s)
    \/ \E s \in Slots : SendResponseFail(s)
    \/ \E s \in Slots : Return(s)
    \/ Tick

TwoSpec == Init /\ [][TwoNext]_vars

\* Weak fairness of McSettle, written out: McSettle can be taken exactly when
\* the batch awaited has settled (the next batch finds free the slots this one
\* leaves), and it is the only step that changes mc during the await.
McSettleFair ==
    \/ []<>(~(mc.pc = "await" /\ AllSettled(mc.i)))
    \/ []<><<mc.pc = "await" /\ mc' # mc>>_vars

\* Every request is answered, the signing of an assertion completes, and the
\* event loop runs the continuation of a batch that has settled.
Fairness ==
    /\ \A s \in Slots : WF_vars(PostTokenRequest(s))
    /\ \A s \in Slots : WF_vars(TokenResponseOk(s) \/ TokenResponseFail(s))
    /\ \A s \in Slots : WF_vars(SendResponseOk(s) \/ SendResponseFail(s))
    /\ McSettleFair

FairSpec == Init /\ [][Next]_vars /\ Fairness

\* A caller whose getAccessToken calls overlap
OverlapNext ==
    \/ \E c \in Callers : CallOverlapping(c)
    \/ \E s \in Slots : PostTokenRequest(s)
    \/ \E s \in Slots : TokenResponseOk(s)
    \/ \E s \in Slots : TokenResponseFail(s)
    \/ \E s \in Slots : Return(s)
    \/ Tick

OverlapSpec == Init /\ [][OverlapNext]_vars

\* Construction alone
CredNext == CredFromJson \/ CredCreate \/ CredUse

CredSpec == CredInit /\ [][CredNext]_vars

----------------------------------------------------------------------------
(* Properties *)

\* the invocation in slot s is called in this step
Begins(s) ==
    /\ tasks[s].pc \in {"free", "done"}
    /\ tasks'[s].pc # "free"
    /\ tasks'[s] # tasks[s]

\* C1: whenever getAccessToken is called (directly or by a send) while the
\* cache holds a token with now + 300 < expires_at, the call returns exactly
\* the cached token, posts no token-exchange request and leaves access_token
\* and expires_at unchanged.
C1_CacheHit ==
    [][\A s \in Slots :
          ( /\ Begins(s)
            /\ tasks'[s].now # -1
            /\ accessToken[tasks'[s].client] # NULL
            /\ clock + 300 < tokenExpiry[tasks'[s].client] )
          => /\ tasks'[s].accessToken = accessToken[tasks'[s].client]
             /\ tasks'[s].tReq = 0
             /\ net'[s].ep # "token"
             /\ (tasks'[s].kind = "getAccessToken"
                    => tasks'[s].result = FulfilledToken(accessToken[tasks'[s].client]))
             /\ accessToken' = accessToken
             /\ tokenExpiry' = tokenExpiry]_vars

\* a getAccessToken call has returned a token without any request of its own
C1_Witness ==
    \E s \in Slots :
        /\ tasks[s].kind = "getAccessToken"
        /\ tasks[s].pc = "done"
        /\ tasks[s].result.status = "fulfilled"
        /\ tasks[s].tReq = 0

\* C2: for a caller whose calls each complete before the next begins, after
\* a successful token exchange whose call read the time t and whose response
\* gave the lifetime L, no token-exchange request is posted at a time t' with
\* t' + 300 < t + L.  (windowEnd is the greatest t + L so far.)
C2_OneRefreshPerWindow ==
    [][\A s \in Slots :
          (tasks[s].pc = "sign" /\ tasks'[s].pc = "token_wait")
          => ~(clock + 300 < windowEnd[tasks[s].client])]_vars

\* a call made inside the window of an earlier exchange has completed without
\* a token-exchange request, and a later one has posted the next request
C2_Witness ==
    \E s \in Slots :
        /\ tasks[s].pc = "token_wait"
        /\ windowEnd[tasks[s].client] > 0
        /\ clock + 300 >= windowEnd[tasks[s].client]

\* C3: of the getAccessToken executions that overlap on one client (the
\* sends of one multicast batch), at most one posts a token-exchange request,
\* and all of them return the same token.
C3_NoRace ==
    \A s, u \in Children(mc.i) :
        s # u =>
            /\ ~(tasks[s].tReq > 0 /\ tasks[u].tReq > 0)
            /\ (tasks[s].accessToken # NULL /\ tasks[u].accessToken # NULL
                    => tasks[s].accessToken = tasks[u].accessToken)

\* the settlement record r is the outcome of the send to target token
RecordIsFor(r, token, notification) ==
    IF Len(SendNotificationCheck(token, notification)) > 0
    THEN r.status = "rejected" /\ ErrorKind(r.reason) = "InvalidArgument"
    ELSE \/ r.status = "fulfilled" /\ r.name.token = token
         \/ r.status = "rejected" /\ ErrorKind(r.reason) = "TokenExchangeFailed"
         \/ /\ r.status = "rejected"
            /\ ErrorKind(r.reason) = "DispatchFailed"
            /\ ErrorBody(r.reason).token = token

\* C4: sendMulticastNotification on a list of n > 0 targets returns exactly n
\* records, and record k is the outcome of the send to target k, in whatever
\* order the responses arrived.
C4_ResultOrder ==
    (mc.pc = "done" /\ mc.outcome = "fulfilled")
    => /\ Len(mc.results) = mc.tokens.n
       /\ \A k \in 1..Len(mc.results) :
             RecordIsFor(mc.results[k], Items(mc.tokens)[k], mc.notification)

\* a multicast over two batches has returned with sends answered in both
C4_Witness ==
    /\ mc.pc = "done"
    /\ Len(mc.results) = batchSize + 1
    /\ mc.results[1].status = "fulfilled"
    /\ mc.results[batchSize].status = "rejected"
    /\ ErrorKind(mc.results[batchSize].reason) = "DispatchFailed"
    /\ mc.results[batchSize + 1].status = "fulfilled"

\* C5: sendMulticastNotification on a non-empty list never fails: it returns
\* one settled record per target, rejected with InvalidArgument exactly for
\* the targets (or the title) the validation refuses, and for every other
\* target of every batch the outcome of that target's own send.
C5_NeverFailsFast ==
    (mc.pc = "done" /\ mc.tokens.defined /\ mc.tokens.n > 0)
    => /\ mc.outcome = "fulfilled"
       /\ Len(mc.results) = mc.tokens.n
       /\ \A k \in 1..Len(mc.results) :
             /\ mc.results[k].status \in {"fulfilled", "rejected"}
             /\ (ErrorKind(mc.results[k].reason) = "InvalidArgument")
                    = (k \notin mc.tokens.live \/ ~mc.notification.present
                         \/ mc.notification.title = "")

\* a multicast has returned with a rejected record before a fulfilled one in
\* the same batch, and a fulfilled one in the next batch
C5_Witness ==
    /\ mc.pc = "done"
    /\ mc.outcome = "fulfilled"
    /\ Len(mc.results) = batchSize + 1
    /\ mc.results[1].status = "rejected"
    /\ ErrorKind(mc.results[1].reason) = "TokenExchangeFailed"
    /\ mc.results[batchSize].status = "fulfilled"
    /\ mc.results[batchSize + 1].status = "fulfilled"

RECURSIVE Flatten(_)
Flatten(batches) ==
    IF Len(batches) = 0 THEN <<>> ELSE Head(batches) \o Flatten(Tail(batches))

\* C6: when the loop ends, a list of n targets has been sliced into
\* ceil(n / 500) batches of at most 500 entries, all but the last of exactly
\* 500, which concatenated are the list; 1200 targets give 500, 500 and 200.
C6_Partition ==
    ~LoopContinues(pI, pTokens)
    => /\ Len(pBatches) = (Len(pTokens) + 499) \div 500
       /\ \A b \in 1..Len(pBatches) :
             /\ Len(pBatches[b]) >= 1
             /\ Len(pBatches[b]) <= 500
             /\ (b < Len(pBatches) => Len(pBatches[b]) = 500)
       /\ Flatten(pBatches) = pTokens
       /\ (Len(pTokens) = 1200
              => [b \in 1..Len(pBatches) |-> Len(pBatches[b])] = <<500, 500, 200>>)

\* the loop has ended on a list of 1200 targets
C6_Witness ==
    /\ Len(pTokens) = 1200
    /\ ~LoopContinues(pI, pTokens)
    /\ Len(pBatches) = 3

\* C7: every send of a multicast that exists belongs to the batch the loop is
\* waiting for, so no send of a later batch starts while a send of an earlier
\* one is unsettled, and at most 500 sends are unsettled at any moment.
C7_SequentialBatches ==
    /\ \A s \in Slots :
          (tasks[s].pc # "free" /\ tasks[s].idx > 0)
          => (mc.pc = "await" /\ tasks[s].of = mc.i)
    /\ Cardinality({s \in Slots : tasks[s].idx > 0 /\ InFlight(s)}) <= 500

\* the second batch is in flight after the first has settled
C7_Witness ==
    /\ mc.pc = "await"
    /\ mc.i = batchSize
    /\ Len(mc.results) = batchSize
    /\ mc.results[1].status = "fulfilled"
    /\ \E s \in Slots : tasks[s].idx > 0 /\ InFlight(s)

\* C8: sendMulticastNotification called with an empty or missing list fails
\* with InvalidArgument, posts no request, calls no send, returns no list and
\* leaves the token cache unchanged.
C8_EmptyList ==
    [][(mc.pc = "idle" /\ mc'.pc # "idle" /\ (~mc'.tokens.defined \/ mc'.tokens.n = 0))
       => /\ mc'.pc = "done"
          /\ mc'.outcome = "rejected"
          /\ ErrorKind(mc'.reason) = "InvalidArgument"
          /\ mc'.results = <<>>
          /\ UNCHANGED <<accessToken, tokenExpiry, tasks, net>>]_vars

\* a multicast on an empty list has been rejected while a token is cached
C8_Witness ==
    /\ mc.pc = "done"
    /\ mc.tokens.defined
    /\ mc.tokens.n = 0
    /\ mc.outcome = "rejected"
    /\ accessToken[mc.client] # NULL

\* C9: sendNotification with an empty device token or an empty or missing
\* title, and sendTopicNotification with an empty topic or an empty or
\* missing title, fail with InvalidArgument at the call, with no request
\* posted and the token cache unchanged.
C9_ValidationFirst ==
    [][\A s \in Slots :
          ( /\ Begins(s)
            /\ tasks'[s].kind \in {"sendNotification", "sendTopicNotification"}
            /\ \/ ~tasks'[s].notification.present
               \/ tasks'[s].notification.title = ""
               \/ tasks'[s].kind = "sendNotification" /\ tasks'[s].token = EmptyToken
               \/ tasks'[s].kind = "sendTopicNotification" /\ tasks'[s].topic = <<>> )
          => /\ tasks'[s].pc = "done"
             /\ tasks'[s].result.status = "rejected"
             /\ ErrorKind(tasks'[s].result.reason) = "InvalidArgument"
             /\ tasks'[s].tReq = 0
             /\ tasks'[s].sReq = 0
             /\ net' = net
             /\ accessToken' = accessToken
             /\ tokenExpiry' = tokenExpiry]_vars

\* a send with a device token and no title has been rejected while a token
\* is cached
C9_Witness ==
    \E s \in Slots :
        /\ tasks[s].kind = "sendNotification"
        /\ tasks[s].token # EmptyToken
        /\ tasks[s].pc = "done"
        /\ tasks[s].result.reason = TitleRequired
        /\ accessToken[tasks[s].client] # NULL

\* C10: when the token endpoint answers with a non-success status, the
\* invocation (getAccessToken or a send that needed the token) fails with
\* TokenExchangeFailed, its message holds the response body text, and no
\* send request has been posted.
C10_TokenFailure ==
    \A s \in Slots :
        (net[s].ep = "token" /\ net[s].answered /\ ~net[s].ok)
        => /\ tasks[s].pc = "done"
           /\ tasks[s].result.status = "rejected"
           /\ ErrorKind(tasks[s].result.reason) = "TokenExchangeFailed"
           /\ ErrorBody(tasks[s].result.reason) = net[s].text
           /\ tasks[s].sReq = 0

\* a sendTopicNotification has failed on the token exchange
C10_Witness ==
    \E s \in Slots :
        /\ tasks[s].kind = "sendTopicNotification"
        /\ net[s].ep = "token"
        /\ net[s].answered
        /\ ~net[s].ok
        /\ tasks[s].result.status = "rejected"

\* C11: a send request is posted only by a sendNotification or
\* sendTopicNotification invocation whose getAccessToken has returned a
\* token, in the step in which it returns, and the bearer of the request is
\* that token: the token the client's cache holds at that moment (the one
\* found there, or the one the exchange has just given).
C11_TokenBeforeSend ==
    [][\A s \in Slots :
          (tasks'[s].sReq > tasks[s].sReq \/ (net'[s].ep = "send" /\ net[s].ep # "send"))
          => /\ tasks'[s].kind \in {"sendNotification", "sendTopicNotification"}
             /\ tasks'[s].now # -1
             /\ tasks'[s].accessToken # NULL
             /\ tasks'[s].accessToken = accessToken'[tasks'[s].client]
             /\ net'[s].ep = "send"
             /\ net'[s].bearer = tasks'[s].accessToken
             /\ tasks'[s].result.status = "pending"
             /\ (tasks[s].pc = "token_wait" \/ Begins(s))]_vars

\* a send is in flight with the token its own exchange gave, after another
\* exchange has replaced the cached token
C11_Witness ==
    \E s \in Slots :
        /\ tasks[s].pc = "send_wait"
        /\ tasks[s].tReq = 1
        /\ net[s].bearer = tasks[s].accessToken
        /\ net[s].bearer # accessToken[tasks[s].client]

\* C12: when the send endpoint has answered a sendNotification, a
\* non-success status has made the call fail with DispatchFailed and a
\* message holding the response body text, and a success status has made it
\* return the response of the endpoint, the message named after the project
\* and the target of the request.
C12_DispatchOutcome ==
    \A s \in Slots :
        (tasks[s].kind = "sendNotification" /\ net[s].ep = "send" /\ net[s].answered)
        => /\ tasks[s].pc = "done"
           /\ ~net[s].ok
                => /\ tasks[s].result.status = "rejected"
                   /\ ErrorKind(tasks[s].result.reason) = "DispatchFailed"
                   /\ Len(tasks[s].result.reason) = 2
                   /\ tasks[s].result.reason[2] = net[s].text
           /\ net[s].ok
                => tasks[s].result =
                      FulfilledResponse([project |-> net[s].project, token |-> tasks[s].token,
                                         topic |-> <<>>])

\* of two sends of one batch, one has failed at the send endpoint and the
\* other has succeeded
C12_Witness ==
    \E s, u \in Slots :
        /\ tasks[s].kind = "sendNotification"
        /\ tasks[u].kind = "sendNotification"
        /\ net[s].ep = "send" /\ net[s].answered /\ ~net[s].ok
        /\ ErrorKind(tasks[s].result.reason) = "DispatchFailed"
        /\ net[u].ep = "send" /\ net[u].answered /\ net[u].ok
        /\ tasks[u].result.status = "fulfilled"

\* a topic name that does not begin with the prefix
Bare(X) == Len(X) > 0 /\ X[1] # Prefix

\* C13: for a bare topic name X, sendTopicNotification called with X and
\* with '/topics/' + X post the same request body: topic X, the title and
\* the body of the notification, no device token.
C13_TopicNormalization ==
    \A s \in Slots, X \in {Y \in Topics : Bare(Y)} :
        ( /\ tasks[s].kind = "sendTopicNotification"
          /\ net[s].ep = "send"
          /\ tasks[s].topic \in {X, <<Prefix>> \o X} )
        => /\ net[s].addr = "topic"
           /\ net[s].topic = X
           /\ net[s].token = EmptyToken
           /\ net[s].title = tasks[s].notification.title
           /\ net[s].body = tasks[s].notification.body

\* a send to '/topics/news' is in flight with topic 'news'
C13_Witness ==
    \E s \in Slots :
        /\ tasks[s].kind = "sendTopicNotification"
        /\ tasks[s].topic = <<Prefix, "news">>
        /\ net[s].ep = "send"
        /\ net[s].topic = <<"news">>

\* the fields a credential must have
Required == {"private_key", "client_email", "project_id"}

\* the credential has no non-empty value for some required field
Lacks(obj) == \E name \in Required : obj[name] \in {Undefined, NULL, ""}

\* C14: createServiceAccountFromJson fails with MalformedCredential on every
\* text that is not JSON or has no non-empty private_key, client_email or
\* project_id, createFCMService fails on every object (or null, or nothing)
\* without one of the three, and so a client exists, and signs a request,
\* only for a credential that has all three.
C14_CredentialValidation ==
    /\ ( /\ cred.how = "json"
         /\ cred.pc # "start"
         /\ (cred.input.shape # "object" \/ cred.input.defect # "none"
                \/ Lacks(cred.input.obj)) )
       => /\ cred.pc = "failed"
          /\ ErrorKind(cred.error) = "MalformedCredential"
          /\ cred.account.kind = "undefined"
    /\ ( /\ cred.how = "object"
         /\ cred.pc # "start"
         /\ (cred.input.shape # "object" \/ Lacks(cred.input.obj)) )
       => /\ cred.pc = "failed"
          /\ ErrorKind(cred.error) = "MalformedCredential"
    /\ cred.pc \in {"created", "used"}
       => /\ cred.input.shape = "object"
          /\ cred.input.defect = "none"
          /\ ~Lacks(cred.input.obj)
    /\ (cred.iss # Undefined \/ cred.key # Undefined) => cred.pc = "used"

\* createFCMService has refused an object that has a private_key and a
\* client_email and an empty project_id
C14_Witness ==
    /\ cred.how = "object"
    /\ cred.pc = "failed"
    /\ cred.input.obj["private_key"] = "private_key"
    /\ cred.input.obj["client_email"] = "client_email"
    /\ cred.input.obj["project_id"] = ""

\* C15: on well-formed credential JSON whose private_key, client_email and
\* project_id are non-empty, createServiceAccountFromJson succeeds and the
\* record it returns has, for every field, the value the text has: absent
\* where absent, null where null, the same string otherwise.
C15_RoundTrip ==
    ( /\ cred.how = "json"
      /\ cred.pc # "start"
      /\ cred.input.shape = "object"
      /\ cred.input.defect = "none"
      /\ ~Lacks(cred.input.obj) )
    => /\ cred.pc \in {"parsed", "created", "used"}
       /\ cred.account.kind = "object"
       /\ \A name \in FieldNames : cred.account.f[name] = cred.input.obj[name]
       /\ cred.error = NoError

\* a credential with a null universe_domain has been parsed
C15_Witness ==
    /\ cred.how = "json"
    /\ cred.pc = "parsed"
    /\ cred.input.obj["universe_domain"] = NULL
    /\ cred.account.f["universe_domain"] = NULL
    /\ cred.account.f["project_id"] = "project_id"

\* C16: with two clients, the cached token and expiry of a client change
\* only in a step in which a token exchange of that client's own invocation
\* completes; the token an invocation is given is the one its own client's
\* cache holds at that moment, and a send request carries that token and
\* addresses the project of its own client, which is not the other's.
C16_OneCachePerClient ==
    /\ [][ /\ \A c \in Clients :
                (accessToken'[c] # accessToken[c] \/ tokenExpiry'[c] # tokenExpiry[c])
                => \E s \in Slots :
                      /\ tasks[s].client = c
                      /\ tasks[s].pc = "token_wait"
                      /\ net[s].ep = "token"
                      /\ net[s].client = c
                      /\ tasks'[s].pc # "token_wait"
                      /\ tasks'[s].accessToken = accessToken'[c]
           /\ \A s \in Slots :
                (tasks'[s].accessToken # NULL /\ tasks'[s].accessToken # tasks[s].accessToken)
                => tasks'[s].accessToken = accessToken'[tasks'[s].client]
         ]_vars
    /\ [](\A s \in Slots :
            net[s].ep = "send"
            => /\ net[s].client = tasks[s].client
               /\ net[s].bearer = tasks[s].accessToken
               /\ (net[s].project = "proj-a") = (tasks[s].client = "A")
               /\ (net[s].project = "proj-b") = (tasks[s].client = "B"))

\* B sends with its own token to its own project while A holds another token
C16_Witness ==
    \E s \in Slots :
        /\ tasks[s].client = "B"
        /\ net[s].ep = "send"
        /\ net[s].project = "proj-b"
        /\ net[s].bearer = accessToken["B"]
        /\ accessToken["A"] # NULL
        /\ accessToken["A"] # accessToken["B"]
        /\ tokenExpiry["A"] # tokenExpiry["B"]

\* the invocation called in this step in slot s has read the time and found
\* a token cached
CallsWithToken(s) ==
    /\ Begins(s)
    /\ tasks'[s].now # -1
    /\ accessToken[tasks'[s].client] # NULL

\* the call has been given the cached token, without a token-exchange request
ReturnsCached(s) ==
    /\ tasks'[s].accessToken = accessToken[tasks'[s].client]
    /\ tasks'[s].pc # "sign"
    /\ tasks'[s].tReq = 0
    /\ net'[s].ep # "token"
    /\ accessToken' = accessToken
    /\ tokenExpiry' = tokenExpiry

\* the call has gone on to a fresh token exchange
StartsExchange(s) ==
    /\ tasks'[s].pc = "sign"
    /\ tasks'[s].accessToken = NULL
    /\ tasks'[s].result.status = "pending"

\* C17, as stated: with a cached token whose expires_at is T + 400, a call at
\* a time t with T <= t <= T + 100 returns the cached token with no
\* token-exchange request, and a call at t > T + 100 starts a fresh exchange.
\* (The time of the call is clock, and T is expires_at - 400.)
C17_BoundaryInclusive ==
    [][\A s \in Slots :
          CallsWithToken(s)
          => LET T == tokenExpiry[tasks'[s].client] - 400
             IN  /\ (T <= clock /\ clock <= T + 100) => ReturnsCached(s)
                 /\ clock > T + 100 => StartsExchange(s)]_vars

\* C17, amended: the call returns the cached token with no token-exchange
\* request at a time t with T <= t < T + 100, and starts a fresh exchange,
\* whose next step posts the token request, at every t >= T + 100.
C17_Boundary ==
    [][\A s \in Slots :
          /\ CallsWithToken(s)
             => LET T == tokenExpiry[tasks'[s].client] - 400
                IN  /\ (T <= clock /\ clock < T + 100) => ReturnsCached(s)
                    /\ clock >= T + 100 => StartsExchange(s)
          /\ (tasks[s].pc = "sign" /\ tasks'[s] # tasks[s])
             => /\ tasks'[s].pc = "token_wait"
                /\ net'[s].ep = "token"]_vars

\* a call made exactly 300 seconds before expires_at has posted a
\* token-exchange request
C17_Witness ==
    \E s \in Slots :
        /\ tasks[s].pc = "token_wait"
        /\ accessToken[tasks[s].client] # NULL
        /\ tokenExpiry[tasks[s].client] = tasks[s].now + 300

\* C18: an invocation posts at most one token-exchange request and at most
\* one send request, and getAccessToken no send request, whatever the
\* responses; a sendNotification called with valid arguments on a client
\* whose cache is absent goes on to the exchange, has posted one token
\* request and no send request while it waits for the token, one of each
\* while it waits for the send, and when it has succeeded it has posted
\* exactly one of each and returns the response of the send endpoint.
C18_NoRetry ==
    /\ [](\A s \in Slots :
            /\ tasks[s].tReq <= 1
            /\ tasks[s].sReq <= 1
            /\ tasks[s].kind = "getAccessToken" => tasks[s].sReq = 0
            /\ tasks[s].pc = "sign" => (tasks[s].tReq = 0 /\ tasks[s].sReq = 0)
            /\ tasks[s].pc = "token_wait" => (tasks[s].tReq = 1 /\ tasks[s].sReq = 0)
            /\ tasks[s].pc = "send_wait" => tasks[s].sReq = 1
            /\ ( /\ tasks[s].kind = "sendNotification"
                 /\ tasks[s].pc = "done"
                 /\ tasks[s].result.status = "fulfilled" )
               => /\ tasks[s].sReq = 1
                  /\ net[s].ep = "send"
                  /\ net[s].ok
                  /\ tasks[s].result.name =
                        [project |-> net[s].project, token |-> net[s].token,
                         topic |-> net[s].topic])
    /\ [][\A s \in Slots :
            ( /\ Begins(s)
              /\ tasks'[s].kind = "sendNotification"
              /\ tasks'[s].result.status # "rejected"
              /\ accessToken[tasks'[s].client] = NULL )
            => /\ tasks'[s].pc = "sign"
               /\ net'[s].ep = "none"]_vars

\* a sendNotification called by the caller has succeeded after one request
\* to each endpoint
C18_Witness ==
    \E s \in Slots :
        /\ tasks[s].kind = "sendNotification"
        /\ tasks[s].idx = 0
        /\ tasks[s].pc = "done"
        /\ tasks[s].result.status = "fulfilled"
        /\ tasks[s].tReq = 1
        /\ tasks[s].sReq = 1

\* C19: when the token endpoint answers a getAccessToken call with
\* {access_token, expires_in}, the call returns access_token and the cache
\* then holds access_token with expires_at = now + expires_in, now being the
\* time the call read when it began (the iat of its assertion), whatever the
\* time at which the response arrives.
C19_CacheFill ==
    [][\A s \in Slots :
          ( /\ tasks[s].kind = "getAccessToken"
            /\ tasks[s].pc = "token_wait"
            /\ net'[s].answered
            /\ net'[s].ok )
          => /\ tasks'[s].pc = "done"
             /\ tasks'[s].result = FulfilledToken(net'[s].access_token)
             /\ accessToken'[tasks[s].client] = net'[s].access_token
             /\ tokenExpiry'[tasks[s].client] = net[s].iat + net'[s].expires_in
             /\ net[s].iat = tasks[s].now]_vars

\* a getAccessToken call has filled the cache from a response that arrived
\* later than the call began
C19_Witness ==
    \E s \in Slots :
        /\ tasks[s].kind = "getAccessToken"
        /\ tasks[s].pc = "done"
        /\ net[s].answered
        /\ net[s].ok
        /\ clock > tasks[s].now
        /\ tokenExpiry[tasks[s].client] = tasks[s].now + net[s].expires_in

\* C20: access_token and expires_at of a client change only in the step in
\* which a token exchange of that client succeeds: the step in which an
\* exchange fails, a call is rejected for its arguments, a send request is
\* posted from the cache, or the send endpoint answers (with success or with
\* an error) leaves both as they were; and a cached token is never cleared.
C20_CacheFrame ==
    [][\A c \in Clients :
          /\ (accessToken'[c] # accessToken[c] \/ tokenExpiry'[c] # tokenExpiry[c])
             => \E s \in Slots :
                   /\ tasks[s].client = c
                   /\ tasks[s].pc = "token_wait"
                   /\ tasks'[s].pc \in {"done", "send_wait"}
                   /\ tasks'[s].result.status # "rejected"
                   /\ tasks'[s].accessToken = accessToken'[c]
                   /\ (tokenExpiry'[c] - tasks[s].now) \in ExpiresIn
          /\ accessToken[c] # NULL => accessToken'[c] # NULL]_vars

\* a token exchange has failed on a client that holds a token from an earlier
\* exchange, and the token and its expiry are still there
C20_Witness ==
    \E s \in Slots :
        /\ tasks[s].pc = "done"
        /\ ErrorKind(tasks[s].result.reason) = "TokenExchangeFailed"
        /\ accessToken[tasks[s].client] # NULL
        /\ tokenExpiry[tasks[s].client] > 0

\* C21: when every request is answered, a sendMulticastNotification on a
\* non-empty list that is waiting for a batch eventually returns its list,
\* with every batch started (the loop variable past the end of the list, one
\* record per target); and the loop moves to a later batch only in a step
\* before which every send of the current batch has settled.
C21_Termination ==
    /\ (mc.pc = "await")
          ~> ( /\ mc.pc = "done"
               /\ mc.outcome = "fulfilled"
               /\ mc.i >= mc.tokens.n
               /\ Len(mc.results) = mc.tokens.n )
    /\ [][(mc.pc = "await" /\ mc' # mc)
          => \A s \in Slots :
                (tasks[s].idx > 0 /\ tasks[s].of = mc.i) => tasks[s].pc = "done"]_vars

\* a multicast over three batches has returned, a send of its second batch
\* having failed
C21_Witness ==
    /\ mc.pc = "done"
    /\ mc.tokens.n = 2 * batchSize + 1
    /\ mc.i > 2 * batchSize
    /\ Len(mc.results) = 2 * batchSize + 1
    /\ mc.results[batchSize + 1].status = "rejected"
    /\ ErrorKind(mc.results[batchSize + 1].reason) \in {"TokenExchangeFailed", "DispatchFailed"}
    /\ mc.results[2 * batchSize + 1].status = "fulfilled"

\* C22: with getAccessToken executions that overlap in every way, whenever
\* the cached access_token or expires_at of a client changes, both are set in
\* that step from one token response, the one answered in that step
\* (access_token its token, expires_at the now of its call + its expires_in);
\* and access_token is absent exactly when expires_at is 0.
C22_PairConsistency ==
    /\ [][\A c \in Clients :
            (accessToken'[c] # accessToken[c] \/ tokenExpiry'[c] # tokenExpiry[c])
            => \E s \in Slots :
                  /\ net[s].ep = "token"
                  /\ net[s].client = c
                  /\ ~net[s].answered
                  /\ net'[s].answered
                  /\ net'[s].ok
                  /\ accessToken'[c] = net'[s].access_token
                  /\ tokenExpiry'[c] = net[s].iat + net'[s].expires_in]_vars
    /\ [](\A c \in Clients : (accessToken[c] = NULL) <=> (tokenExpiry[c] = 0))

\* the response of the exchange started first has arrived after the response
\* of the one started later, with another token and a later expiry cached
C22_Witness ==
    \E s, u \in Slots :
        /\ tasks[s].pc = "done" /\ net[s].answered /\ net[s].ok
        /\ tasks[u].pc = "done" /\ net[u].answered /\ net[u].ok
        /\ tasks[s].now < tasks[u].now
        /\ net[s].access_token # net[u].access_token
        /\ accessToken[tasks[s].client] = net[s].access_token
        /\ tokenExpiry[tasks[s].client] = tasks[s].now + net[s].expires_in
        /\ tokenExpiry[tasks[s].client] < tasks[u].now + net[u].expires_in

\* C23: when the exchange of a getAccessToken call succeeds as the last of
\* the overlapping exchanges of its client (another call, which read a later
\* now, has completed its own successful exchange in the meantime, and none
\* is left in flight), the cache then holds the token and the expiry of the
\* exchange started last.
C23_NewestWins ==
    [][\A s, u \in Slots :
          ( /\ s # u
            /\ tasks[s].client = tasks[u].client
            /\ tasks[s].pc = "token_wait"
            /\ tasks'[s].pc = "done"
            /\ tasks'[s].result.status = "fulfilled"
            /\ tasks[u].pc = "done"
            /\ tasks[u].tReq = 1
            /\ tasks[u].result.status = "fulfilled"
            /\ tasks[s].now < tasks[u].now
            /\ \A v \in Slots \ {s} : ~InFlight(v) )
          => /\ accessToken'[tasks[u].client] = net[u].access_token
             /\ tokenExpiry'[tasks[u].client] = tasks[u].now + net[u].expires_in]_vars

\* C24: the topic field of every send request of sendTopicNotification (the
\* topic given was not empty, or the call would have been rejected) is not
\* empty and does not begin with '/topics/'.
C24_BareTopic ==
    \A s \in Slots :
        (tasks[s].kind = "sendTopicNotification" /\ net[s].ep = "send")
        => /\ Len(tasks[s].topic) > 0
           /\ Len(net[s].topic) > 0
           /\ net[s].topic[1] # Prefix

====
